---- MODULE Spec2Model ----
(***************************************************************************)
(* Model of pkg/broker/ingress/multi_topic_decouple_sink.go:               *)
(* multiTopicDecoupleSink routes events to the pubsub topic of the broker  *)
(* they are sent to, keeping one *pubsub.Topic per broker in m.topics,     *)
(* guarded by the RWMutex m.topicsMut, and re-reading the broker config    *)
(* (config.ReadonlyTargets) on every Send.                                 *)
(*                                                                         *)
(* Goroutines calling Send are the threads; every access to shared state   *)
(* (the broker config, the topics map, the mutex, a topic's stopped flag)  *)
(* is an action of its own.                                                *)
(*                                                                         *)
(* The libraries the sink calls are modelled by their contracts:           *)
(*  - sync.RWMutex: any number of readers or one writer. A blocked Lock    *)
(*    may keep later RLock calls waiting; the model lets them proceed too, *)
(*    which only adds behaviours.                                          *)
(*  - pubsub.Topic: Stop marks the topic stopped and returns once the      *)
(*    messages published before it were sent or failed; Publish on a       *)
(*    stopped topic yields a result that carries the topic-stopped error;  *)
(*    Client.Topic returns a new handle and cannot fail.                   *)
(*                                                                         *)
(* The module also models PullSubscriptionSpec.Validate of                 *)
(* pkg/apis/intevents/v1alpha1/pullsubscription_validation.go, for its     *)
(* checks of RetentionDuration and AckDeadline, with time.ParseDuration    *)
(* modelled on strings over a small alphabet.                              *)
(***************************************************************************)
EXTENDS Integers, Sequences, FiniteSets, TLC

\* ---------------------------------------------------------------- bounds
\* Number of goroutines calling Send concurrently.
NThreads == 2
\* Total number of Send calls started in a behaviour.
MaxSends == 3
\* Total number of out-of-band rewrites of the broker config.
MaxChanges == 2

\* Total number of rewrites of the broker config in the behaviours checked
\* for termination.
MaxLiveChanges == 1

\* Longest RetentionDuration or AckDeadline string handed to Validate.
MaxLen == 4

\* ---------------------------------------------------------------- values
Threads == 1..NThreads
Brokers == {"b1", "b2"}
TopicIDs == {"t1", "t2"}

\* A broker's entry in the config: State, and DecoupleQueue (queue = FALSE is
\* a nil DecoupleQueue) with its Topic ("" is the empty string).
NoBroker == [found |-> FALSE, state |-> "UNKNOWN", queue |-> FALSE, topic |-> ""]
BrokerEntry(s, q, tp) == [found |-> TRUE, state |-> s, queue |-> q, topic |-> tp]
\* The entries the controller writes in the model: not found; not ready, without
\* and with a decouple topic; ready with no queue, with an empty topic, and
\* with each topic.
Routes ==
    { NoBroker,
      BrokerEntry("UNKNOWN", FALSE, ""), BrokerEntry("UNKNOWN", TRUE, "t1"),
      BrokerEntry("READY", FALSE, ""), BrokerEntry("READY", TRUE, "") }
    \cup { BrokerEntry("READY", TRUE, tp) : tp \in TopicIDs }
\* The entries a broker may have when the sink is constructed.
InitRoutes == { NoBroker, BrokerEntry("READY", TRUE, "t1") }

\* The entries the controller writes for broker b: every kind for b1; b2, the
\* other broker, is only added and removed.
RoutesOf(b) == IF b = "b1" THEN Routes ELSE InitRoutes

\* The nil *pubsub.Topic / the absent map key.
NoTopic == 0

VARIABLES
    brokerConfig,  \* m.brokerConfig: broker -> its entry (NoBroker: not found)
    nchanges,      \* history: broker -> number of rewrites of its entry
    topics,        \* m.topics: broker -> handle (NoTopic: no key)
    handles,       \* every *pubsub.Topic created so far, by creation order
    writer,        \* m.topicsMut: the thread holding Lock, or 0
    readers,       \* m.topicsMut: the threads holding RLock
    pc,            \* thread -> its position in Send
    broker,        \* thread -> the broker of its Send
    topicID,       \* thread -> the local topicID
    topic,         \* thread -> the local topic (a handle)
    err,           \* thread -> the error of its Send so far
    snap,          \* history: thread -> what the cache held when its Send began,
                   \*   and the topic ID of its lookup's first read
    lastRet,       \* history: broker -> the last successful lookup's result
    sends,         \* history: number of Send calls started
    tx,            \* history: thread -> its Send's Publish calls and their fate
    logged,        \* history: thread -> the level at which its Send logged
    current,       \* the PullSubscriptionSpec handed to Validate
    errs           \* the field errors Validate returned for it

vars == <<brokerConfig, nchanges, topics, handles, writer, readers, pc, broker,
          topicID, topic, err, snap, lastRet, sends, tx, logged, current, errs>>

config == <<brokerConfig, nchanges>>
mutex == <<writer, readers>>
cache == <<topics, handles>>
webhook == <<current, errs>>

\* ---------------------------------------------------------------- helpers
RECURSIVE SumOver(_, _)
SumOver(f, S) ==
    IF S = {} THEN 0
    ELSE LET x == CHOOSE y \in S : TRUE IN f[x] + SumOver(f, S \ {x})

HandleIDs == 1..Len(handles)
HandlesOf(b) == { h \in HandleIDs : handles[h].broker = b }
Opens(b) == Cardinality(HandlesOf(b))
\* Handles of b that were stopped and are no longer the map's entry.
Replaced(b) == { h \in HandlesOf(b) : handles[h].stopped > 0 /\ topics[b] # h }

NoSnap == [ver |-> 0, entry |-> NoTopic, replaced |-> {},
           last |-> [h |-> NoTopic, ver |-> 0], first |-> ""]
\* No Publish call yet.
NoTx == [pubs |-> 0, result |-> "none"]

\* ------------------------------------------------- getTopicIDForBroker
\* Variant: the !ok branch is missing; the zero-valued entry is classified.
getTopicIDForBrokerNoFoundCheck(b) ==
    LET brokerCfg == brokerConfig[b] IN
    IF brokerCfg.state # "READY" THEN [topicID |-> "", err |-> "ErrNotReady", log |-> "debug"]
    ELSE IF ~brokerCfg.queue \/ brokerCfg.topic = ""
        THEN [topicID |-> "", err |-> "ErrIncomplete", log |-> "error"]
    ELSE [topicID |-> brokerCfg.topic, err |-> "nil", log |-> "none"]

\* Variant: the State check is missing.
getTopicIDForBrokerNoStateCheck(b) ==
    LET brokerCfg == brokerConfig[b] IN
    IF ~brokerCfg.found THEN [topicID |-> "", err |-> "ErrNotFound", log |-> "warn"]
    ELSE IF ~brokerCfg.queue \/ brokerCfg.topic = ""
        THEN [topicID |-> "", err |-> "ErrIncomplete", log |-> "error"]
    ELSE [topicID |-> brokerCfg.topic, err |-> "nil", log |-> "none"]

\* Variant: the DecoupleQueue check is missing; a missing topic reads as "".
getTopicIDForBrokerNoQueueCheck(b) ==
    LET brokerCfg == brokerConfig[b] IN
    IF ~brokerCfg.found THEN [topicID |-> "", err |-> "ErrNotFound", log |-> "warn"]
    ELSE IF brokerCfg.state # "READY" THEN [topicID |-> "", err |-> "ErrNotReady", log |-> "debug"]
    ELSE [topicID |-> brokerCfg.topic, err |-> "nil", log |-> "none"]

\* Variant: the DecoupleQueue check comes before the State check.
getTopicIDForBrokerQueueFirst(b) ==
    LET brokerCfg == brokerConfig[b] IN
    IF ~brokerCfg.found THEN [topicID |-> "", err |-> "ErrNotFound", log |-> "warn"]
    ELSE IF ~brokerCfg.queue \/ brokerCfg.topic = ""
        THEN [topicID |-> "", err |-> "ErrIncomplete", log |-> "error"]
    ELSE IF brokerCfg.state # "READY" THEN [topicID |-> "", err |-> "ErrNotReady", log |-> "debug"]
    ELSE [topicID |-> brokerCfg.topic, err |-> "nil", log |-> "none"]

\* Lines 122-140: classify the broker's config entry.
getTopicIDForBroker(b) ==
    LET brokerCfg == brokerConfig[b] IN
    IF ~brokerCfg.found THEN [topicID |-> "", err |-> "ErrNotFound", log |-> "warn"]
    ELSE IF brokerCfg.state # "READY" THEN [topicID |-> "", err |-> "ErrNotReady", log |-> "debug"]
    ELSE IF ~brokerCfg.queue \/ brokerCfg.topic = ""
        THEN [topicID |-> "", err |-> "ErrIncomplete", log |-> "error"]
    ELSE [topicID |-> brokerCfg.topic, err |-> "nil", log |-> "none"]

\* ------------------------------------------- PullSubscriptionSpec.Validate
\* A time.Duration: sign, whole seconds and milliseconds below one second
\* (no input of the model has a finer part). Zero has no sign.
Duration(n, sec, ms) == [neg |-> n /\ (sec > 0 \/ ms > 0), sec |-> sec, ms |-> ms]
Seconds(n) == Duration(FALSE, n, 0)

\* a < b on durations.
Less(a, b) ==
    LET magLess(x, y) == x.sec < y.sec \/ (x.sec = y.sec /\ x.ms < y.ms) IN
    IF a.neg THEN (IF b.neg THEN magLess(b, a) ELSE TRUE)
    ELSE (IF b.neg THEN FALSE ELSE magLess(a, b))

\* Lines 36-40.
minRetentionDuration == Seconds(10)
maxRetentionDuration == Seconds(7 * 24 * 3600)
minAckDeadline == Seconds(0)
maxAckDeadline == Seconds(10 * 60)

\* The characters of the strings handed to Validate: some digits, the unit
\* letters and the sign.
Digits == {"0", "1", "6", "8", "9"}
Chars == Digits \cup {"s", "m", "h", "-"}
DigitVal(c) == CASE c = "0" -> 0 [] c = "1" -> 1 [] c = "6" -> 6
                 [] c = "8" -> 8 [] c = "9" -> 9

\* time.ParseDuration's unitMap, for the units that can be written with Chars:
\* the unit's length in milliseconds.
UnitMap == (<<"m", "s">> :> 1) @@ (<<"s">> :> 1000) @@ (<<"m">> :> 60000)
           @@ (<<"h">> :> 3600000)

\* The length of the longest prefix of s made of characters in (isDigit) or
\* not in (~isDigit) Digits.
RECURSIVE PrefixLen(_, _)
PrefixLen(s, isDigit) ==
    IF s = <<>> \/ ((s[1] \in Digits) # isDigit) THEN 0
    ELSE 1 + PrefixLen(Tail(s), isDigit)

\* leadingInt: the value of a string of digits.
RECURSIVE IntOf(_)
IntOf(s) ==
    IF s = <<>> THEN 0 ELSE 10 * IntOf(SubSeq(s, 1, Len(s) - 1)) + DigitVal(s[Len(s)])

\* The loop of time.ParseDuration: a sequence of terms, each a number and a
\* unit. Returns the sum in seconds and milliseconds, or ok = FALSE.
RECURSIVE ParseTerms(_)
ParseTerms(s) ==
    IF s = <<>> THEN [ok |-> TRUE, sec |-> 0, ms |-> 0]
    ELSE LET nd == PrefixLen(s, TRUE)
             rest == SubSeq(s, nd + 1, Len(s))
             nu == PrefixLen(rest, FALSE)
             u == SubSeq(rest, 1, nu)
             v == IntOf(SubSeq(s, 1, nd))
         IN  IF nd = 0 \/ nu = 0 \/ u \notin DOMAIN UnitMap
             THEN [ok |-> FALSE, sec |-> 0, ms |-> 0]
             ELSE LET tl == ParseTerms(SubSeq(rest, nu + 1, Len(rest)))
                      sec == IF UnitMap[u] = 1 THEN v \div 1000
                             ELSE v * (UnitMap[u] \div 1000)
                      ms == IF UnitMap[u] = 1 THEN v % 1000 ELSE 0
                  IN  [ok |-> tl.ok,
                       sec |-> sec + tl.sec + ((ms + tl.ms) \div 1000),
                       ms |-> (ms + tl.ms) % 1000]

\* time.ParseDuration: an optional sign, then "0" or a sequence of terms.
ParseDuration(s) ==
    LET signed == s # <<>> /\ s[1] = "-"
        body == IF signed THEN Tail(s) ELSE s
        r == ParseTerms(body)
    IN  IF body = <<"0">> THEN [ok |-> TRUE, d |-> Seconds(0)]
        ELSE IF body = <<>> \/ ~r.ok THEN [ok |-> FALSE, d |-> Seconds(0)]
        ELSE [ok |-> TRUE, d |-> Duration(signed, r.sec, r.ms)]

\* A *string field: nil, or a pointer to a string.
NilString == [set |-> FALSE, s |-> <<>>]
String(s) == [set |-> TRUE, s |-> s]

\* The two fields of PullSubscriptionSpec that are modelled.
PullSubscriptionSpec(rd, ad) == [retentionDuration |-> rd, ackDeadline |-> ad]
NoSpec == PullSubscriptionSpec(NilString, NilString)
\* Validate has not returned yet.
NotValidated == {[err |-> "none", field |-> "none"]}

\* apis.ErrInvalidValue / apis.ErrOutOfBoundsValue for a field.
ErrInvalidValue(field) == [err |-> "ErrInvalidValue", field |-> field]
ErrOutOfBoundsValue(field) == [err |-> "ErrOutOfBoundsValue", field |-> field]

\* Lines 67-75.
ValidateRetentionDuration(p) ==
    IF ~p.set THEN {}
    ELSE LET rd == ParseDuration(p.s) IN
         IF ~rd.ok THEN {ErrInvalidValue("retentionDuration")}
         ELSE IF Less(rd.d, minRetentionDuration) \/ Less(maxRetentionDuration, rd.d)
             THEN {ErrOutOfBoundsValue("retentionDuration")}
         ELSE {}

\* Variant: a negative AckDeadline is not checked.
ValidateAckDeadlineNoMin(p) ==
    IF ~p.set THEN {}
    ELSE LET ad == ParseDuration(p.s) IN
         IF ~ad.ok THEN {ErrInvalidValue("ackDeadline")}
         ELSE IF Less(maxAckDeadline, ad.d)
             THEN {ErrOutOfBoundsValue("ackDeadline")}
         ELSE {}

\* Lines 77-85.
ValidateAckDeadline(p) ==
    IF ~p.set THEN {}
    ELSE LET ad == ParseDuration(p.s) IN
         IF ~ad.ok THEN {ErrInvalidValue("ackDeadline")}
         ELSE IF Less(ad.d, minAckDeadline) \/ Less(maxAckDeadline, ad.d)
             THEN {ErrOutOfBoundsValue("ackDeadline")}
         ELSE {}

\* ---------------------------------------------------------------- Init
Init ==
    /\ brokerConfig \in [Brokers -> InitRoutes]
    /\ nchanges = [b \in Brokers |-> 0]
    /\ topics = [b \in Brokers |-> NoTopic]
    /\ handles = <<>>
    /\ writer = 0
    /\ readers = {}
    /\ pc = [t \in Threads |-> "idle"]
    /\ broker = [t \in Threads |-> "b1"]
    /\ topicID = [t \in Threads |-> ""]
    /\ topic = [t \in Threads |-> NoTopic]
    /\ err = [t \in Threads |-> "nil"]
    /\ snap = [t \in Threads |-> NoSnap]
    /\ lastRet = [b \in Brokers |-> [h |-> NoTopic, ver |-> 0]]
    /\ sends = 0
    /\ tx = [t \in Threads |-> NoTx]
    /\ logged = [t \in Threads |-> "none"]
    /\ current = NoSpec
    /\ errs = NotValidated

\* ------------------------------------------------------- the environment
\* The broker controller rewrites one broker's entry in the config.
SetBroker(b, r) ==
    /\ SumOver(nchanges, Brokers) < MaxChanges
    /\ r # brokerConfig[b]
    /\ brokerConfig' = [brokerConfig EXCEPT ![b] = r]
    /\ nchanges' = [nchanges EXCEPT ![b] = @ + 1]
    /\ UNCHANGED <<cache, mutex, pc, broker, topicID, topic, err, snap, lastRet, sends, tx, logged, webhook>>

\* ---------------------------------------------------------------- Send
\* A goroutine that is not inside Send: it has not called Send yet, or its
\* last Send has returned err[t] to the caller.
Free(t) == pc[t] \in {"idle", "done"}

\* Line 66-67: Send is called, and calls getTopicForBroker. Goroutines have no
\* identity: the call runs on the first free one.
SendStart(t, b) ==
    /\ Free(t)
    /\ \A u \in Threads : u < t => ~Free(u)
    /\ sends < MaxSends
    /\ sends' = sends + 1
    /\ pc' = [pc EXCEPT ![t] = "getTopicID"]
    /\ broker' = [broker EXCEPT ![t] = b]
    /\ topicID' = [topicID EXCEPT ![t] = ""]
    /\ topic' = [topic EXCEPT ![t] = NoTopic]
    /\ err' = [err EXCEPT ![t] = "nil"]
    /\ snap' = [snap EXCEPT ![t] =
                  [ver |-> nchanges[b], entry |-> topics[b],
                   replaced |-> Replaced(b), last |-> lastRet[b], first |-> ""]]
    /\ tx' = [tx EXCEPT ![t] = NoTx]
    /\ logged' = [logged EXCEPT ![t] = "none"]
    /\ UNCHANGED <<config, cache, mutex, lastRet, webhook>>

\* The lookup of thread t returns handle h to Send (line 67-70); the lookup's
\* locals go out of scope.
LookupReturns(t, h) ==
    /\ topic' = [topic EXCEPT ![t] = h]
    /\ topicID' = [topicID EXCEPT ![t] = ""]
    /\ snap' = [snap EXCEPT ![t].first = ""]
    /\ lastRet' = [lastRet EXCEPT ![broker[t]] = [h |-> h, ver |-> snap[t].ver]]

\* Variant: a broker with a cached topic is not classified again.
GetTopicIDCachedFirst(t) ==
    /\ pc[t] = "getTopicID"
    /\ LET r == IF topics[broker[t]] # NoTopic
                    THEN [topicID |-> handles[topics[broker[t]]].id, err |-> "nil",
                          log |-> "none"]
                    ELSE getTopicIDForBroker(broker[t]) IN
        /\ err' = [err EXCEPT ![t] = r.err]
        /\ topicID' = [topicID EXCEPT ![t] = r.topicID]
        /\ logged' = [logged EXCEPT ![t] = r.log]
        /\ snap' = [snap EXCEPT ![t].first = r.topicID]
        /\ pc' = [pc EXCEPT ![t] = IF r.err # "nil" THEN "done" ELSE "RLock"]
    /\ UNCHANGED <<config, cache, mutex, broker, topic, lastRet, sends, tx, webhook>>

\* Lines 84-87: the first, unlocked read of the config.
GetTopicID(t) ==
    /\ pc[t] = "getTopicID"
    /\ LET r == getTopicIDForBroker(broker[t]) IN
        /\ err' = [err EXCEPT ![t] = r.err]
        /\ topicID' = [topicID EXCEPT ![t] = r.topicID]
        /\ logged' = [logged EXCEPT ![t] = r.log]
        /\ snap' = [snap EXCEPT ![t].first = r.topicID]
        /\ pc' = [pc EXCEPT ![t] = IF r.err # "nil" THEN "done" ELSE "RLock"]
    /\ UNCHANGED <<config, cache, mutex, broker, topic, lastRet, sends, tx, webhook>>

\* Variant: the lock is a plain mutex; a reader excludes other readers.
RLockExclusive(t) ==
    /\ pc[t] = "RLock"
    /\ writer = 0
    /\ readers = {}
    /\ readers' = readers \cup {t}
    /\ pc' = [pc EXCEPT ![t] = "getExisting"]
    /\ UNCHANGED <<config, cache, writer, broker, topicID, topic, err, snap, lastRet, sends, tx, logged, webhook>>

\* Line 143: getExistingTopic takes the read lock.
RLock(t) ==
    /\ pc[t] = "RLock"
    /\ writer = 0
    /\ readers' = readers \cup {t}
    /\ pc' = [pc EXCEPT ![t] = "getExisting"]
    /\ UNCHANGED <<config, cache, writer, broker, topicID, topic, err, snap, lastRet, sends, tx, logged, webhook>>

\* Lines 144-146: read the map under the read lock and release it.
GetExisting(t) ==
    /\ pc[t] = "getExisting"
    /\ readers' = readers \ {t}
    /\ topic' = [topic EXCEPT ![t] = topics[broker[t]]]
    /\ pc' = [pc EXCEPT ![t] = "compare"]
    /\ UNCHANGED <<config, cache, writer, broker, topicID, err, snap, lastRet, sends, tx, logged, webhook>>

\* Variant: the cached topic is returned without comparing its ID.
ExistingAnyID(t) == topic[t] # NoTopic

\* Variant: the cached topic is never taken.
ExistingNever(t) == FALSE

\* Lines 89-91: the cached topic exists and its ID is the topic ID just read.
ExistingMatches(t) ==
    /\ topic[t] # NoTopic
    /\ handles[topic[t]].id = topicID[t]

\* Lines 89-97: outside the lock, either return the topic that was read or
\* go on to updateTopicForBroker.
Compare(t) ==
    /\ pc[t] = "compare"
    /\ IF ExistingMatches(t)
        THEN /\ LookupReturns(t, topic[t])
             /\ pc' = [pc EXCEPT ![t] = "encode"]
        ELSE /\ pc' = [pc EXCEPT ![t] = "Lock"]
             /\ topic' = [topic EXCEPT ![t] = NoTopic]
             /\ UNCHANGED <<topicID, lastRet, snap>>
    /\ UNCHANGED <<config, cache, mutex, broker, err, sends, tx, logged, webhook>>

\* Variant: updateTopicForBroker runs without taking the write lock.
LockSkipped(t) ==
    /\ pc[t] = "Lock"
    /\ pc' = [pc EXCEPT ![t] = "locked"]
    /\ UNCHANGED <<config, cache, mutex, broker, topicID, topic, err, snap, lastRet, sends, tx, logged, webhook>>

\* Line 101: updateTopicForBroker takes the write lock.
Lock(t) ==
    /\ pc[t] = "Lock"
    /\ writer = 0
    /\ readers = {}
    /\ writer' = t
    /\ pc' = [pc EXCEPT ![t] = "locked"]
    /\ UNCHANGED <<config, cache, readers, broker, topicID, topic, err, snap, lastRet, sends, tx, logged, webhook>>

\* Variant: the read under the lock only checks the error; the topic ID of
\* the first read is used.
ReReadKeepsFirstID(t) ==
    /\ pc[t] = "locked"
    /\ LET r == getTopicIDForBroker(broker[t]) IN
        /\ err' = [err EXCEPT ![t] = r.err]
        /\ topicID' = [topicID EXCEPT ![t] = IF r.err # "nil" THEN "" ELSE @]
        /\ logged' = [logged EXCEPT ![t] = r.log]
        /\ pc' = [pc EXCEPT ![t] = IF r.err # "nil" THEN "Unlock" ELSE "check"]
    /\ UNCHANGED <<config, cache, mutex, broker, topic, snap, lastRet, sends, tx, webhook>>

\* Variant: a broker that fails the read under the lock loses its map entry.
ReReadEvicts(t) ==
    /\ pc[t] = "locked"
    /\ LET r == getTopicIDForBroker(broker[t]) IN
        /\ err' = [err EXCEPT ![t] = r.err]
        /\ topicID' = [topicID EXCEPT ![t] = r.topicID]
        /\ logged' = [logged EXCEPT ![t] = r.log]
        /\ topics' = IF r.err # "nil" THEN [topics EXCEPT ![broker[t]] = NoTopic]
                      ELSE topics
        /\ pc' = [pc EXCEPT ![t] = IF r.err # "nil" THEN "Unlock" ELSE "check"]
    /\ UNCHANGED <<config, handles, mutex, broker, topic, snap, lastRet, sends, tx, webhook>>

\* Variant: the error return under the lock does not release the lock.
ReReadNoUnlock(t) ==
    /\ pc[t] = "locked"
    /\ LET r == getTopicIDForBroker(broker[t]) IN
        /\ err' = [err EXCEPT ![t] = r.err]
        /\ topicID' = [topicID EXCEPT ![t] = r.topicID]
        /\ logged' = [logged EXCEPT ![t] = r.log]
        /\ pc' = [pc EXCEPT ![t] = IF r.err # "nil" THEN "done" ELSE "check"]
    /\ UNCHANGED <<config, cache, mutex, broker, topic, snap, lastRet, sends, tx, webhook>>

\* Lines 104-107: fetch the latest topic ID under the lock.
ReRead(t) ==
    /\ pc[t] = "locked"
    /\ LET r == getTopicIDForBroker(broker[t]) IN
        /\ err' = [err EXCEPT ![t] = r.err]
        /\ topicID' = [topicID EXCEPT ![t] = r.topicID]
        /\ logged' = [logged EXCEPT ![t] = r.log]
        /\ pc' = [pc EXCEPT ![t] = IF r.err # "nil" THEN "Unlock" ELSE "check"]
    /\ UNCHANGED <<config, cache, mutex, broker, topic, snap, lastRet, sends, tx, webhook>>

\* Variant: no second check under the write lock.
NeverAlreadyUpdated(t) == FALSE

\* Lines 109-110: the map already holds a topic with the latest topic ID.
AlreadyUpdated(t) ==
    /\ topics[broker[t]] # NoTopic
    /\ handles[topics[broker[t]]].id = topicID[t]

\* Lines 109-113: topic already updated (by another thread): return it.
CheckHit(t) ==
    /\ pc[t] = "check"
    /\ AlreadyUpdated(t)
    /\ topic' = [topic EXCEPT ![t] = topics[broker[t]]]
    /\ pc' = [pc EXCEPT ![t] = "Unlock"]
    /\ UNCHANGED <<config, cache, mutex, broker, topicID, err, snap, lastRet, sends, tx, logged, webhook>>

\* Variant: the old topic is dropped without Stop.
CheckNoStop(t) ==
    /\ pc[t] = "check"
    /\ topics[broker[t]] # NoTopic
    /\ ~AlreadyUpdated(t)
    /\ pc' = [pc EXCEPT ![t] = "flush"]
    /\ UNCHANGED <<config, cache, mutex, broker, topicID, topic, err, snap, lastRet, sends, tx, logged, webhook>>

\* Lines 109-115: the map holds a topic with another ID: Stop is called on it.
\* Topic.Stop marks the topic stopped, then flushes.
CheckStop(t) ==
    /\ pc[t] = "check"
    /\ topics[broker[t]] # NoTopic
    /\ ~AlreadyUpdated(t)
    /\ handles' = [handles EXCEPT ![topics[broker[t]]].stopped = @ + 1]
    /\ pc' = [pc EXCEPT ![t] = "flush"]
    /\ UNCHANGED <<config, topics, mutex, broker, topicID, topic, err, snap, lastRet, sends, tx, logged, webhook>>

\* Line 109: the map holds no topic for the broker.
CheckMiss(t) ==
    /\ pc[t] = "check"
    /\ topics[broker[t]] = NoTopic
    /\ pc' = [pc EXCEPT ![t] = "create"]
    /\ UNCHANGED <<config, cache, mutex, broker, topicID, topic, err, snap, lastRet, sends, tx, logged, webhook>>

\* Line 115: Stop returns once every message published on the topic
\* has been sent or has failed.
Flush(t) ==
    /\ pc[t] = "flush"
    /\ \A u \in Threads :
         ~(pc[u] = "get" /\ topic[u] = topics[broker[t]] /\ err[u] = "nil")
    /\ pc' = [pc EXCEPT ![t] = "create"]
    /\ UNCHANGED <<config, cache, mutex, broker, topicID, topic, err, snap, lastRet, sends, tx, logged, webhook>>

\* Variant: a handle created earlier for the same broker and topic ID is reused.
CreateReuse(t) ==
    /\ pc[t] = "create"
    /\ LET old == { h \in HandlesOf(broker[t]) : handles[h].id = topicID[t] } IN
        IF old # {}
        THEN /\ topic' = [topic EXCEPT ![t] = CHOOSE h \in old : TRUE]
             /\ UNCHANGED handles
        ELSE /\ handles' = Append(handles, [broker |-> broker[t], id |-> topicID[t],
                                            stopped |-> 0, replacedBy |-> NoTopic])
             /\ topic' = [topic EXCEPT ![t] = Len(handles) + 1]
    /\ pc' = [pc EXCEPT ![t] = "install"]
    /\ UNCHANGED <<config, topics, mutex, broker, topicID, err, snap, lastRet, sends, tx, logged, webhook>>

\* Variant: the handle is opened for the broker's name, not for its topic ID.
CreateForBrokerName(t) ==
    /\ pc[t] = "create"
    /\ handles' = Append(handles, [broker |-> broker[t], id |-> broker[t],
                                   stopped |-> 0, replacedBy |-> NoTopic])
    /\ topic' = [topic EXCEPT ![t] = Len(handles) + 1]
    /\ pc' = [pc EXCEPT ![t] = "install"]
    /\ UNCHANGED <<config, topics, mutex, broker, topicID, err, snap, lastRet, sends, tx, logged, webhook>>

\* Line 117: topic := m.pubsub.Topic(topicID), a new handle.
Create(t) ==
    /\ pc[t] = "create"
    /\ handles' = Append(handles, [broker |-> broker[t], id |-> topicID[t],
                                   stopped |-> 0, replacedBy |-> NoTopic])
    /\ topic' = [topic EXCEPT ![t] = Len(handles) + 1]
    /\ pc' = [pc EXCEPT ![t] = "install"]
    /\ UNCHANGED <<config, topics, mutex, broker, topicID, err, snap, lastRet, sends, tx, logged, webhook>>

\* Variant: the map is replaced by one that holds only the new topic.
InstallClearsOthers(t) ==
    /\ pc[t] = "install"
    /\ topics' = [b \in Brokers |-> IF b = broker[t] THEN topic[t] ELSE NoTopic]
    /\ handles' = IF topics[broker[t]] = NoTopic THEN handles
                  ELSE [handles EXCEPT ![topics[broker[t]]].replacedBy = topic[t]]
    /\ pc' = [pc EXCEPT ![t] = "Unlock"]
    /\ UNCHANGED <<config, mutex, broker, topicID, topic, err, snap, lastRet, sends, tx, logged, webhook>>

\* Variant: the new topic is returned but not written to the map.
InstallNoWrite(t) ==
    /\ pc[t] = "install"
    /\ pc' = [pc EXCEPT ![t] = "Unlock"]
    /\ UNCHANGED <<config, cache, mutex, broker, topicID, topic, err, snap, lastRet, sends, tx, logged, webhook>>

\* Variant: the old topic is stopped a second time when it is replaced.
InstallStopAgain(t) ==
    /\ pc[t] = "install"
    /\ topics' = [topics EXCEPT ![broker[t]] = topic[t]]
    /\ handles' = IF topics[broker[t]] = NoTopic THEN handles
                  ELSE [handles EXCEPT ![topics[broker[t]]].replacedBy = topic[t],
                                       ![topics[broker[t]]].stopped = @ + 1]
    /\ pc' = [pc EXCEPT ![t] = "Unlock"]
    /\ UNCHANGED <<config, mutex, broker, topicID, topic, err, snap, lastRet, sends, tx, logged, webhook>>

\* Line 118: m.topics[broker] = topic.
Install(t) ==
    /\ pc[t] = "install"
    /\ topics' = [topics EXCEPT ![broker[t]] = topic[t]]
    /\ handles' = IF topics[broker[t]] = NoTopic THEN handles
                  ELSE [handles EXCEPT ![topics[broker[t]]].replacedBy = topic[t]]
    /\ pc' = [pc EXCEPT ![t] = "Unlock"]
    /\ UNCHANGED <<config, mutex, broker, topicID, topic, err, snap, lastRet, sends, tx, logged, webhook>>

\* Variant: updateTopicForBroker returns without releasing the write lock.
UnlockKept(t) ==
    /\ pc[t] = "Unlock"
    /\ IF err[t] = "nil"
        THEN /\ LookupReturns(t, topic[t])
             /\ pc' = [pc EXCEPT ![t] = "encode"]
        ELSE /\ pc' = [pc EXCEPT ![t] = "done"]
             /\ snap' = [snap EXCEPT ![t].first = ""]
             /\ UNCHANGED <<topicID, topic, lastRet>>
    /\ UNCHANGED <<config, cache, mutex, broker, err, sends, tx, logged, webhook>>

\* Line 102 (deferred) and 97, 67-70: release the write lock and return.
Unlock(t) ==
    /\ pc[t] = "Unlock"
    /\ writer' = 0
    /\ IF err[t] = "nil"
        THEN /\ LookupReturns(t, topic[t])
             /\ pc' = [pc EXCEPT ![t] = "encode"]
        ELSE /\ pc' = [pc EXCEPT ![t] = "done"]
             /\ snap' = [snap EXCEPT ![t].first = ""]
             /\ UNCHANGED <<topicID, topic, lastRet>>
    /\ UNCHANGED <<config, cache, readers, broker, err, sends, tx, logged, webhook>>

\* Variant: a Send that cannot encode its event stops the topic and drops it
\* from the map.
EncodeFailEvicts(t) ==
    /\ pc[t] = "encode"
    /\ err' = [err EXCEPT ![t] = "EncodeError"]
    /\ handles' = [handles EXCEPT ![topic[t]].stopped = @ + 1]
    /\ topics' = [topics EXCEPT ![broker[t]] = IF @ = topic[t] THEN NoTopic ELSE @]
    /\ pc' = [pc EXCEPT ![t] = "done"]
    /\ UNCHANGED <<config, mutex, broker, topicID, topic, snap, lastRet, sends, tx, logged, webhook>>

\* Lines 72-76: WritePubSubMessage fails; Send returns its error.
EncodeFail(t) ==
    /\ pc[t] = "encode"
    /\ err' = [err EXCEPT ![t] = "EncodeError"]
    /\ pc' = [pc EXCEPT ![t] = "done"]
    /\ UNCHANGED <<config, cache, mutex, broker, topicID, topic, snap, lastRet, sends, tx, logged, webhook>>

\* Line 78: topic.Publish(ctx, msg). A stopped topic refuses the message:
\* the PublishResult is ready at once with the topic-stopped error.
Publish(t) ==
    /\ pc[t] = "encode"
    /\ err' = [err EXCEPT ![t] =
                 IF handles[topic[t]].stopped > 0 THEN "ErrTopicStopped" ELSE "nil"]
    /\ tx' = [tx EXCEPT ![t] =
                [pubs |-> @.pubs + 1,
                 result |-> IF handles[topic[t]].stopped > 0 THEN "refused" ELSE "pending"]]
    /\ pc' = [pc EXCEPT ![t] = "get"]
    /\ UNCHANGED <<config, cache, mutex, broker, topicID, topic, snap, lastRet, sends, logged, webhook>>

\* The fate of a pending message: acknowledged by the server, failed in the
\* transport, or abandoned by a cancelled context.
Fate(t, outcome) ==
    [tx EXCEPT ![t].result =
        IF @ = "pending" THEN (IF outcome = "nil" THEN "acked" ELSE outcome) ELSE @]

\* Variant: a failed publish drops the broker's topic from the map.
GetEvictsOnError(t, outcome) ==
    /\ pc[t] = "get"
    /\ err' = [err EXCEPT ![t] = IF @ = "nil" THEN outcome ELSE @]
    /\ tx' = Fate(t, outcome)
    /\ topics' = IF err'[t] = "nil" THEN topics
                 ELSE [topics EXCEPT ![broker[t]] = NoTopic]
    /\ pc' = [pc EXCEPT ![t] = "done"]
    /\ UNCHANGED <<config, handles, mutex, broker, topicID, topic, snap, lastRet, sends, logged, webhook>>

\* Variant: the error of Get is dropped.
GetSwallowsError(t, outcome) ==
    /\ pc[t] = "get"
    /\ err' = [err EXCEPT ![t] = "nil"]
    /\ tx' = Fate(t, outcome)
    /\ pc' = [pc EXCEPT ![t] = "done"]
    /\ UNCHANGED <<config, cache, mutex, broker, topicID, topic, snap, lastRet, sends, logged, webhook>>

\* Line 78-79: .Get(ctx) returns the server's acknowledgment, the transport's
\* error, or the context's error; Send returns it.
Get(t, outcome) ==
    /\ pc[t] = "get"
    /\ err' = [err EXCEPT ![t] = IF @ = "nil" THEN outcome ELSE @]
    /\ tx' = Fate(t, outcome)
    /\ pc' = [pc EXCEPT ![t] = "done"]
    /\ UNCHANGED <<config, cache, mutex, broker, topicID, topic, snap, lastRet, sends, logged, webhook>>

Next ==
    \/ \E b \in Brokers : \E r \in RoutesOf(b) : SetBroker(b, r)
    \/ \E t \in Threads, b \in Brokers : SendStart(t, b)
    \/ \E t \in Threads : GetTopicID(t)
    \/ \E t \in Threads : RLock(t)
    \/ \E t \in Threads : GetExisting(t)
    \/ \E t \in Threads : Compare(t)
    \/ \E t \in Threads : Lock(t)
    \/ \E t \in Threads : ReRead(t)
    \/ \E t \in Threads : CheckHit(t)
    \/ \E t \in Threads : CheckStop(t)
    \/ \E t \in Threads : CheckMiss(t)
    \/ \E t \in Threads : Flush(t)
    \/ \E t \in Threads : Create(t)
    \/ \E t \in Threads : Install(t)
    \/ \E t \in Threads : Unlock(t)
    \/ \E t \in Threads : EncodeFail(t)
    \/ \E t \in Threads : Publish(t)
    \/ \E t \in Threads, o \in {"nil", "TransportError", "Canceled"} : Get(t, o)

Spec == Init /\ [][Next]_vars

\* Sequential use: a Send is called only when no other Send is running. The
\* config may still be rewritten at any time.
NoSendRunning == \A u \in Threads : Free(u)

SeqNext ==
    \/ \E b \in Brokers : \E r \in RoutesOf(b) : SetBroker(b, r)
    \/ \E t \in Threads, b \in Brokers : NoSendRunning /\ SendStart(t, b)
    \/ \E t \in Threads : GetTopicID(t)
    \/ \E t \in Threads : RLock(t)
    \/ \E t \in Threads : GetExisting(t)
    \/ \E t \in Threads : Compare(t)
    \/ \E t \in Threads : Lock(t)
    \/ \E t \in Threads : ReRead(t)
    \/ \E t \in Threads : CheckHit(t)
    \/ \E t \in Threads : CheckStop(t)
    \/ \E t \in Threads : CheckMiss(t)
    \/ \E t \in Threads : Flush(t)
    \/ \E t \in Threads : Create(t)
    \/ \E t \in Threads : Install(t)
    \/ \E t \in Threads : Unlock(t)
    \/ \E t \in Threads : EncodeFail(t)
    \/ \E t \in Threads : Publish(t)
    \/ \E t \in Threads, o \in {"nil", "TransportError", "Canceled"} : Get(t, o)

SeqSpec == Init /\ [][SeqNext]_vars

\* Termination: the same Sends, with at most MaxLiveChanges rewrites of the
\* config, under fair scheduling.
SetBrokerLive(b, r) ==
    /\ SumOver(nchanges, Brokers) < MaxLiveChanges
    /\ SetBroker(b, r)

LiveNext ==
    \/ \E b \in Brokers : \E r \in RoutesOf(b) : SetBrokerLive(b, r)
    \/ \E t \in Threads, b \in Brokers : SendStart(t, b)
    \/ \E t \in Threads : GetTopicID(t)
    \/ \E t \in Threads : RLock(t)
    \/ \E t \in Threads : GetExisting(t)
    \/ \E t \in Threads : Compare(t)
    \/ \E t \in Threads : Lock(t)
    \/ \E t \in Threads : ReRead(t)
    \/ \E t \in Threads : CheckHit(t)
    \/ \E t \in Threads : CheckStop(t)
    \/ \E t \in Threads : CheckMiss(t)
    \/ \E t \in Threads : Flush(t)
    \/ \E t \in Threads : Create(t)
    \/ \E t \in Threads : Install(t)
    \/ \E t \in Threads : Unlock(t)
    \/ \E t \in Threads : EncodeFail(t)
    \/ \E t \in Threads : Publish(t)
    \/ \E t \in Threads, o \in {"nil", "TransportError", "Canceled"} : Get(t, o)

\* The steps of t's lookup (getTopicForBroker, lines 83-120 and 142-147).
Lookup(t) ==
    \/ GetTopicID(t) \/ RLock(t) \/ GetExisting(t) \/ Compare(t)
    \/ Lock(t) \/ ReRead(t) \/ CheckHit(t) \/ CheckStop(t) \/ CheckMiss(t)
    \/ Flush(t) \/ Create(t) \/ Install(t) \/ Unlock(t)

\* A goroutine that can take a step of its lookup takes it: the scheduler is
\* fair and the RWMutex grants a lock that stays free. A pending message is
\* sent or fails, so that Get, and with it Stop, returns.
Fairness ==
    \A t \in Threads :
        /\ WF_vars(Lookup(t))
        /\ WF_vars(\E o \in {"nil", "TransportError", "Canceled"} : Get(t, o))

LiveSpec == Init /\ [][LiveNext]_vars /\ Fairness

\* ---------------------------------------------------- the webhook
\* The strings of at most MaxLen characters.
DurationStrings == UNION { [1..n -> Chars] : n \in 0..MaxLen }
\* The specs handed to Validate: one of the two fields set to any string, or
\* both set to strings at and around the limits.
Specs ==
    { PullSubscriptionSpec(String(s), NilString) : s \in DurationStrings }
    \cup { PullSubscriptionSpec(NilString, String(s)) : s \in DurationStrings }
    \cup { PullSubscriptionSpec(String(s), String(u)) :
             s, u \in { <<"9", "s">>, <<"1", "0", "m">>, <<"1", "6", "9", "h">>, <<"h">> } }
    \cup { NoSpec }

\* No Send is called; a spec arrives at the webhook.
ValInit ==
    /\ brokerConfig = [b \in Brokers |-> NoBroker]
    /\ nchanges = [b \in Brokers |-> 0]
    /\ topics = [b \in Brokers |-> NoTopic]
    /\ handles = <<>>
    /\ writer = 0
    /\ readers = {}
    /\ pc = [t \in Threads |-> "idle"]
    /\ broker = [t \in Threads |-> "b1"]
    /\ topicID = [t \in Threads |-> ""]
    /\ topic = [t \in Threads |-> NoTopic]
    /\ err = [t \in Threads |-> "nil"]
    /\ snap = [t \in Threads |-> NoSnap]
    /\ lastRet = [b \in Brokers |-> [h |-> NoTopic, ver |-> 0]]
    /\ sends = 0
    /\ tx = [t \in Threads |-> NoTx]
    /\ logged = [t \in Threads |-> "none"]
    /\ current \in Specs
    /\ errs = NotValidated

\* Lines 48-105: PullSubscriptionSpec.Validate, for the errors of
\* retentionDuration and ackDeadline.
Validate ==
    /\ errs = NotValidated
    /\ errs' = ValidateRetentionDuration(current.retentionDuration)
                 \cup ValidateAckDeadline(current.ackDeadline)
    /\ UNCHANGED <<brokerConfig, nchanges, topics, handles, writer, readers, pc,
                   broker, topicID, topic, err, snap, lastRet, sends, tx, logged,
                   current>>

ValNext == Validate

ValSpec == ValInit /\ [][ValNext]_vars

\* ================================================================ claims
LookupErrs == {"ErrNotFound", "ErrNotReady", "ErrIncomplete"}
\* The lookup of t's Send has returned a handle to Send.
Returned(t) == pc[t] \in {"encode", "get", "done"} /\ err[t] \notin LookupErrs
\* Send of t has called Publish.
Published(t) == pc[t] \in {"get", "done"} /\ err[t] \notin LookupErrs \cup {"EncodeError"}
\* t's Send is running or has returned, and its broker's config entry has not
\* been rewritten since the Send began.
Stable(t) == pc[t] # "idle" /\ snap[t].ver = nchanges[broker[t]]
\* Every handle a lookup takes is open when the lookup releases the lock under
\* which it took it: the read lock of getExistingTopic, the write lock of
\* updateTopicForBroker.
OpenWhenTaken ==
    [][\A t \in Threads :
         /\ (t \in readers /\ t \notin readers' /\ topic'[t] # NoTopic) =>
                handles'[topic'[t]].stopped = 0
         /\ (writer = t /\ writer' # t /\ err[t] = "nil") =>
                handles'[topic'[t]].stopped = 0]_vars

\* C1: while a broker's route is, and has been since construction, Ready with
\* a topic, at most one handle is ever opened for the broker, whatever the
\* interleaving of the lookups, and every lookup that has returned holds that
\* one handle, which is the cached one.
C1_NoDuplicateCreation ==
    \A b \in Brokers :
        (nchanges[b] = 0 /\ getTopicIDForBroker(b).err = "nil") =>
            /\ Opens(b) <= 1
            /\ \A t \in Threads :
                 (Returned(t) /\ broker[t] = b) =>
                     /\ HandlesOf(b) = {topic[t]}
                     /\ topics[b] = topic[t]

\* Two first-time lookups raced: one created the handle and has returned it,
\* the other found it under the write lock and is about to return the same.
C1_Witness ==
    \E t, u \in Threads :
        /\ t # u /\ broker[t] = broker[u] /\ nchanges[broker[t]] = 0
        /\ Returned(t) /\ snap[t].last.h = NoTopic /\ snap[u].last.h = NoTopic
        /\ pc[u] = "Unlock" /\ err[u] = "nil" /\ topic[u] = topic[t]
        /\ Opens(broker[t]) = 1

\* C2: no Send calls Publish on a handle on which Stop was already called (the
\* call on a stopped topic is the one answered with the topic-stopped error).
C2_NeverPublishOnStopped ==
    \A t \in Threads : ~(Published(t) /\ err[t] = "ErrTopicStopped")

\* C3: a Send that obtained a handle which another call then replaced does not
\* fail because of that call's Stop.
C3_DrainCompletes ==
    \A t \in Threads :
        (pc[t] = "done" /\ Returned(t) /\ handles[topic[t]].replacedBy # NoTopic) =>
            err[t] # "ErrTopicStopped"

\* C4: a lookup never yields a handle that had already been replaced in the
\* map when the lookup began, also when the route is back at that handle's
\* topic ID.
C4_NoStaleAfterSwap ==
    \A t \in Threads : topic[t] # NoTopic => topic[t] \notin snap[t].replaced

\* The route rotated back: the lookup returned a fresh handle for the topic ID
\* of a handle that was replaced before the lookup began.
C4_Witness ==
    \E t \in Threads :
        /\ Returned(t)
        /\ \E h \in snap[t].replaced : handles[h].id = handles[topic[t]].id

\* C5: Stop is called at most once on a handle, and only on the broker's
\* cached handle by the holder of the write lock that is replacing it, which
\* then installs a handle of the same broker for a different topic ID.
C5_ClosedOnceOnReplace ==
    \A h \in HandleIDs :
        /\ handles[h].stopped <= 1
        /\ handles[h].replacedBy # NoTopic => handles[h].stopped = 1
        /\ handles[h].stopped = 1 =>
            IF handles[h].replacedBy # NoTopic
            THEN /\ handles[handles[h].replacedBy].broker = handles[h].broker
                 /\ handles[handles[h].replacedBy].id # handles[h].id
            ELSE /\ writer # 0
                 /\ pc[writer] \in {"flush", "create", "install"}
                 /\ broker[writer] = handles[h].broker
                 /\ topics[handles[h].broker] = h
                 /\ topicID[writer] # handles[h].id

C5_Witness ==
    \E h \in HandleIDs : handles[h].stopped = 1 /\ handles[h].replacedBy # NoTopic

\* C6: whenever nobody holds the write lock, the open (created, not stopped)
\* handles of a broker are exactly the handle cached for it, if any.
C6_OneLiveHandle ==
    writer = 0 =>
        \A b \in Brokers :
            { h \in HandlesOf(b) : handles[h].stopped = 0 } =
                IF topics[b] = NoTopic THEN {} ELSE {topics[b]}

C6_Witness ==
    /\ writer = 0
    /\ \E b \in Brokers : Opens(b) >= 2 /\ topics[b] # NoTopic

\* C7 (sequential use): a Send that published while its broker's route stayed
\* put published on the open, cached handle for the route's topic ID; if the
\* previous lookup of the broker had returned a handle for another topic ID,
\* this Send opened exactly one handle and stopped exactly that previous
\* handle, once; and no Send publishes on a replaced handle.
C7_SequentialRotation ==
    \A t \in Threads :
        LET b == broker[t]
            new == topic[t]
            old == snap[t].last.h
        IN  /\ Published(t) => err[t] # "ErrTopicStopped"
            /\ (pc[t] = "done" /\ Published(t) /\ Stable(t)) =>
                 /\ handles[new].id = brokerConfig[b].topic
                 /\ handles[new].stopped = 0
                 /\ topics[b] = new
                 /\ (old # NoTopic /\ handles[old].id # handles[new].id) =>
                      /\ new \notin snap[t].replaced \cup {old}
                      /\ HandlesOf(b) = snap[t].replaced \cup {old, new}
                      /\ Replaced(b) = snap[t].replaced \cup {old}
                      /\ handles[old].stopped = 1
                      /\ handles[old].replacedBy = new

\* A Send after a rotation has published: the previous handle is stopped.
C7_Witness ==
    \E t \in Threads :
        /\ pc[t] = "done" /\ err[t] = "nil" /\ Stable(t)
        /\ snap[t].last.h # NoTopic
        /\ handles[snap[t].last.h].id = "t1"
        /\ handles[topic[t]].id = "t2"

\* C8: a lookup that begins after a lookup of the same broker returned a
\* handle, the broker's route staying put from the start of the first to the
\* end of the second, returns the very same handle and neither opens nor stops
\* any: and if the route was never rewritten, the broker has one handle ever.
C8_IdempotentHit ==
    \A t \in Threads :
        LET b == broker[t]
            last == snap[t].last
        IN  (pc[t] # "idle" /\ last.h # NoTopic /\ last.ver = nchanges[b]) =>
                /\ pc[t] \notin {"flush", "create", "install"}
                /\ err[t] \notin LookupErrs
                /\ topic[t] \in {NoTopic, last.h}
                /\ handles[last.h].stopped = 0
                /\ topics[b] = last.h
                /\ nchanges[b] = 0 => Opens(b) = 1

C8_Witness ==
    \E t \in Threads :
        /\ Returned(t) /\ snap[t].last.h = topic[t]
        /\ snap[t].last.ver = nchanges[broker[t]]

\* C9: a Send for a broker that is absent from the config for the whole call
\* stops at the first read of the config, returns ErrNotFound and gets no
\* handle, whatever the cache holds.
C9_NotFound ==
    \A t \in Threads :
        (Stable(t) /\ ~brokerConfig[broker[t]].found) =>
            /\ pc[t] \in {"getTopicID", "done"}
            /\ pc[t] = "done" => (err[t] = "ErrNotFound" /\ topic[t] = NoTopic)

\* The broker was removed from the config while the cache holds its handle.
C9_Witness ==
    \E t \in Threads :
        /\ pc[t] = "done" /\ Stable(t) /\ ~brokerConfig[broker[t]].found
        /\ err[t] = "ErrNotFound" /\ topics[broker[t]] # NoTopic

\* C10: a Send for a broker that is present but not READY for the whole call
\* stops at the first read of the config and returns ErrNotReady, also when
\* the entry names a topic; it gets no handle and publishes nothing.
C10_NotReady ==
    \A t \in Threads :
        (Stable(t) /\ brokerConfig[broker[t]].found
                   /\ brokerConfig[broker[t]].state # "READY") =>
            /\ pc[t] \in {"getTopicID", "done"}
            /\ pc[t] = "done" => (err[t] = "ErrNotReady" /\ topic[t] = NoTopic)

C10_Witness ==
    \E t \in Threads :
        /\ pc[t] = "done" /\ Stable(t) /\ err[t] = "ErrNotReady"
        /\ brokerConfig[broker[t]].state # "READY"
        /\ brokerConfig[broker[t]].topic # ""

\* C11: a Send for a broker that is READY for the whole call but has no
\* DecoupleQueue or an empty topic stops at the first read of the config and
\* returns ErrIncomplete; it gets no handle, and no handle is ever created
\* for an empty topic ID.
C11_Incomplete ==
    /\ \A h \in HandleIDs : handles[h].id # ""
    /\ \A t \in Threads :
        LET brokerCfg == brokerConfig[broker[t]] IN
        (Stable(t) /\ brokerCfg.found /\ brokerCfg.state = "READY"
                   /\ (~brokerCfg.queue \/ brokerCfg.topic = "")) =>
            /\ pc[t] \in {"getTopicID", "done"}
            /\ pc[t] = "done" => (err[t] = "ErrIncomplete" /\ topic[t] = NoTopic)

\* A Send returned ErrIncomplete for a READY broker whose DecoupleQueue is nil.
C11_Witness ==
    \E t \in Threads :
        /\ pc[t] = "done" /\ Stable(t) /\ err[t] = "ErrIncomplete"
        /\ brokerConfig[broker[t]].state = "READY"
        /\ ~brokerConfig[broker[t]].queue

\* C12: a lookup that fails with ErrNotFound, ErrNotReady or ErrIncomplete,
\* at the first read or at the read under the write lock, holds no handle and
\* has not been through the stop, the creation or the map write; none of its
\* steps changes the map or a handle; and it returns with the lock released.
C12_FailedLookupLeavesCache ==
    /\ [](\A t \in Threads :
            err[t] \in LookupErrs =>
                /\ topic[t] = NoTopic
                /\ pc[t] \in {"Unlock", "done"}
                /\ pc[t] = "Unlock" => writer = t
                /\ pc[t] = "done" => (writer # t /\ t \notin readers))
    /\ [][\A t \in Threads :
            (err'[t] \in LookupErrs /\ <<pc[t], err[t]>> # <<pc'[t], err'[t]>>) =>
                cache' = cache]_vars

\* The read under the write lock failed while the cache holds the broker's
\* handle.
C12_Witness ==
    \E t \in Threads :
        /\ pc[t] = "Unlock" /\ err[t] \in LookupErrs
        /\ topics[broker[t]] # NoTopic

\* C14: a Send whose publish failed in the transport or was cancelled returns
\* that error; while its broker's route stays put, the handle it used is still
\* the cached one and is open, and a Send that began after the handle was
\* returned takes the same handle without stopping or creating one.
C14_FailedPublishKeepsCache ==
    \A t \in Threads :
        (pc[t] = "done" /\ tx[t].result \in {"TransportError", "Canceled"}) =>
            /\ err[t] = tx[t].result
            /\ topic[t] # NoTopic
            /\ Stable(t) =>
                /\ topics[broker[t]] = topic[t]
                /\ handles[topic[t]].stopped = 0
                /\ \A u \in Threads \ {t} :
                     (pc[u] # "idle" /\ broker[u] = broker[t]
                        /\ snap[u].last.h = topic[t] /\ Stable(u)) =>
                         /\ pc[u] \notin {"flush", "create", "install"}
                         /\ topic[u] \in {NoTopic, topic[t]}

C14_Witness ==
    \E t, u \in Threads :
        /\ t # u /\ broker[u] = broker[t]
        /\ pc[t] = "done" /\ tx[t].result = "Canceled" /\ Stable(t)
        /\ Returned(u) /\ snap[u].last.h = topic[t] /\ topic[u] = topic[t]
        /\ Opens(broker[t]) = 1

\* C15 (as claimed): at the step at which a lookup returns a handle, the
\* broker's cached handle is bound to the topic ID the lookup last read.
C15_CacheMatchesAtReturn ==
    [][\A t \in Threads :
         (~Returned(t) /\ Returned(t)') =>
             /\ topics'[broker[t]] # NoTopic
             /\ handles'[topics'[broker[t]]].id = topicID[t]]_vars

\* C15 (amended): the handle a lookup returns is bound to the topic ID the
\* lookup last read, and it was the broker's cached handle when the lookup
\* last held the lock: what is read under the read lock is the map's entry,
\* and when the write lock is released by a successful lookup the map holds
\* the returned handle.
C15_CacheMatchesUnderLock ==
    [][\A t \in Threads :
         /\ (t \in readers /\ t \notin readers') => topic'[t] = topics[broker[t]]
         /\ (~Returned(t) /\ Returned(t)') =>
                /\ topic'[t] # NoTopic
                /\ handles[topic'[t]].id = topicID[t]
                /\ pc[t] = "compare" => topic'[t] = topic[t]
         /\ (writer = t /\ writer' # t /\ err[t] = "nil") =>
                topics[broker[t]] = topic'[t]]_vars

\* A lookup has returned the handle with which the cache's older handle was
\* replaced.
C15_Witness ==
    \E t \in Threads :
        /\ pc[t] = "encode" /\ topics[broker[t]] = topic[t]
        /\ snap[t].entry \notin {NoTopic, topic[t]}
        /\ handles[snap[t].entry].replacedBy = topic[t]

\* C16: a handle on which Stop was called has already been replaced in the
\* map.
C16_InstallBeforeStop ==
    \A h \in HandleIDs : handles[h].stopped > 0 => handles[h].replacedBy # NoTopic

\* C17: a lookup that is about to take the read lock, for a broker whose
\* cached handle matches the route it read, is not kept waiting by a call for
\* another broker that holds the write lock while it stops or opens a handle.
C17_UnrelatedNotBlocked ==
    \A t \in Threads :
        (/\ pc[t] = "RLock"
         /\ topics[broker[t]] # NoTopic
         /\ handles[topics[broker[t]]].id = topicID[t]
         /\ writer # 0) =>
            (broker[writer] = broker[t] \/ pc[writer] \notin {"flush", "create"})

\* C18: the write lock is not held while Stop flushes the old handle or while
\* the new handle is opened.
C18_NoBlockingUnderLock ==
    \A t \in Threads : pc[t] \in {"flush", "create"} => writer # t

\* C19: a Send calls Publish at most once; it returns nil exactly when its
\* message was acknowledged, and otherwise the error of the transport, of the
\* context or of the stopped topic, as it is; a Send that did not publish
\* returns the lookup's or the encoder's error.
C19_PublishOnceNoSwallow ==
    \A t \in Threads :
        /\ tx[t].pubs <= 1
        /\ pc[t] = "done" =>
            /\ err[t] = "nil" <=> tx[t].result = "acked"
            /\ tx[t].result \in {"TransportError", "Canceled"} => err[t] = tx[t].result
            /\ tx[t].result = "refused" => err[t] = "ErrTopicStopped"
            /\ tx[t].pubs = 0 <=> err[t] \in LookupErrs \cup {"EncodeError"}
            /\ tx[t].pubs = 0 <=> tx[t].result = "none"

C19_Witness ==
    \E t, u \in Threads :
        /\ pc[t] = "done" /\ tx[t].result = "TransportError" /\ tx[t].pubs = 1
        /\ pc[u] = "done" /\ tx[u].result = "acked" /\ err[u] = "nil"

\* C20: while the broker's route stays put and READY and the map's entry for
\* the broker is the one it was when the Send began, bound to the route's
\* topic ID, the lookup stays on the fast path: it never calls Lock, holds the
\* write lock, stops or creates a handle, and the handle it takes is that
\* entry.
C20_FastPath ==
    \A t \in Threads :
        LET b == broker[t]
            e == snap[t].entry
        IN  (/\ Stable(t) /\ e # NoTopic /\ topics[b] = e
             /\ getTopicIDForBroker(b).err = "nil"
             /\ getTopicIDForBroker(b).topicID = handles[e].id) =>
                /\ pc[t] \in {"getTopicID", "RLock", "getExisting", "compare",
                              "encode", "get", "done"}
                /\ writer # t
                /\ err[t] \notin LookupErrs
                /\ topic[t] \in {NoTopic, e}

\* A fast-path hit after a rotation: the entry is not the broker's first handle.
C20_Witness ==
    \E t \in Threads :
        /\ pc[t] = "encode" /\ Stable(t)
        /\ snap[t].entry = topic[t] /\ topics[broker[t]] = topic[t]
        /\ handles[topic[t]].id = "t2"

\* t's Send is inside updateTopicForBroker with the write lock.
InUpdate(t) == pc[t] \in {"locked", "check", "flush", "create", "install", "Unlock"}

\* C21: after a broker's route changed once, to READY with topic t2, however
\* the lookups interleave, at most one handle is opened for t2 and it is
\* never stopped, the t1 handle is stopped at most once, and once a lookup
\* has returned the t2 handle it is the cached one and the t1 handle was
\* stopped once and replaced by it; a lookup that finds t2 installed when it
\* holds the write lock returns the installed handle and changes nothing.
C21_RotationRace ==
    /\ [](\A b \in Brokers :
            (nchanges[b] = 1 /\ brokerConfig[b] = BrokerEntry("READY", TRUE, "t2")) =>
                LET new == { h \in HandlesOf(b) : handles[h].id = "t2" }
                    old == { h \in HandlesOf(b) : handles[h].id = "t1" }
                IN  /\ Cardinality(new) <= 1
                    /\ Cardinality(old) <= 1
                    /\ \A h \in old : handles[h].stopped <= 1
                    /\ \A h \in new : handles[h].stopped = 0
                    /\ \A t \in Threads :
                         (broker[t] = b /\ Returned(t) /\ topic[t] \in new) =>
                             /\ topics[b] = topic[t]
                             /\ \A h \in old : /\ handles[h].stopped = 1
                                               /\ handles[h].replacedBy = topic[t]
                    /\ \A t \in Threads :
                         (broker[t] = b /\ pc[t] = "check" /\ topics[b] \in new) =>
                             topicID[t] = "t2")
    /\ [][\A t \in Threads :
            (/\ pc[t] = "check" /\ pc'[t] # "check"
             /\ topics[broker[t]] # NoTopic
             /\ handles[topics[broker[t]]].id = topicID[t]) =>
                /\ pc'[t] = "Unlock"
                /\ topic'[t] = topics[broker[t]]
                /\ cache' = cache]_vars

\* Two Sends began while the t1 handle was cached; one has returned the t2
\* handle, the other found it under the write lock.
C21_Witness ==
    \E t, u \in Threads :
        /\ t # u /\ broker[t] = broker[u]
        /\ nchanges[broker[t]] = 1
        /\ brokerConfig[broker[t]] = BrokerEntry("READY", TRUE, "t2")
        /\ snap[t].entry # NoTopic /\ snap[u].entry = snap[t].entry
        /\ handles[snap[t].entry].id = "t1"
        /\ pc[t] = "Unlock" /\ err[t] = "nil" /\ topic[t] = topics[broker[t]]
        /\ Returned(u) /\ topic[u] = topic[t]
        /\ handles[topic[t]].id = "t2"

\* C22: the topic ID used by updateTopicForBroker is the one read under the
\* write lock: it is the config's topic at that read, it is kept until the
\* handle is opened, and the handle opened is a new one bound to it, also
\* when the first read returned another topic ID.
C22_OpensReReadID ==
    /\ [](\A t \in Threads :
            /\ pc[t] \in {"check", "flush", "create", "install"} =>
                  topicID[t] \in TopicIDs
            /\ pc[t] = "install" =>
                  /\ handles[topic[t]].id = topicID[t]
                  /\ snap[t].first # topicID[t] => handles[topic[t]].id # snap[t].first)
    /\ [][\A t \in Threads :
            /\ (pc[t] = "locked" /\ pc'[t] = "check") =>
                  /\ brokerConfig[broker[t]].state = "READY"
                  /\ topicID'[t] = brokerConfig[broker[t]].topic
            /\ (pc[t] \in {"check", "flush", "create"}
                  /\ pc'[t] \in {"flush", "create", "install"}) =>
                  topicID'[t] = topicID[t]
            /\ (pc[t] = "create" /\ pc'[t] = "install") =>
                  /\ Len(handles') = Len(handles) + 1
                  /\ topic'[t] = Len(handles')
                  /\ handles'[topic'[t]].id = topicID[t]]_vars

\* The first read returned t1, the read under the lock t2; the handle opened
\* is for t2 and the broker never had a t1 handle.
C22_Witness ==
    \E t \in Threads :
        /\ pc[t] = "install"
        /\ snap[t].first = "t1" /\ topicID[t] = "t2"
        /\ handles[topic[t]].id = "t2"
        /\ Opens(broker[t]) = 1

\* C23: a Send that begins when its broker has a map entry, while the broker's
\* config entry is missing, not READY or without topic and stays so, stops
\* at the first read with the error of that classification; it takes no
\* handle and calls Publish on none.
C23_NoBypass ==
    \A t \in Threads :
        LET r == getTopicIDForBroker(broker[t]) IN
        (Stable(t) /\ snap[t].entry # NoTopic /\ r.err # "nil") =>
            /\ pc[t] \in {"getTopicID", "done"}
            /\ topic[t] = NoTopic
            /\ tx[t].pubs = 0
            /\ pc[t] = "done" => err[t] = r.err

\* A Send returned ErrNotReady while the broker's open handle is cached.
C23_Witness ==
    \E t \in Threads :
        /\ pc[t] = "done" /\ Stable(t) /\ err[t] = "ErrNotReady"
        /\ snap[t].entry # NoTopic /\ topics[broker[t]] = snap[t].entry
        /\ handles[snap[t].entry].stopped = 0

\* C24: a broker that has a map entry keeps having one; a rewrite of the
\* config changes neither the map nor a handle; and a broker's entry is
\* replaced or one of its handles stopped only by a Send for that broker that
\* holds the write lock and read a topic ID for it under the lock.
C24_EntriesNeverRemoved ==
    [][\A b \in Brokers :
         /\ topics[b] # NoTopic => topics'[b] # NoTopic
         /\ brokerConfig'[b] # brokerConfig[b] => cache' = cache
         /\ (\/ topics'[b] # topics[b]
             \/ \E h \in HandlesOf(b) : handles'[h].stopped # handles[h].stopped) =>
                /\ writer # 0
                /\ broker[writer] = b
                /\ err[writer] = "nil"
                /\ topicID[writer] \in TopicIDs]_vars

\* The broker is gone from the config, a Send for it returned ErrNotFound,
\* and its handle is still cached and open.
C24_Witness ==
    \E t \in Threads :
        /\ pc[t] = "done" /\ Stable(t) /\ err[t] = "ErrNotFound"
        /\ ~brokerConfig[broker[t]].found
        /\ topics[broker[t]] # NoTopic
        /\ handles[topics[broker[t]]].stopped = 0

\* C25: a thread holds the read lock only inside getExistingTopic and the
\* write lock only inside updateTopicForBroker; it holds neither while it
\* encodes the event, calls Publish or waits in Get.
C25_NoLockWhilePublishing ==
    \A t \in Threads :
        /\ t \in readers => pc[t] = "getExisting"
        /\ writer = t => InUpdate(t)
        /\ pc[t] \in {"encode", "get"} => (writer # t /\ t \notin readers)

\* A Send waits in Get while another Send holds the write lock.
C25_Witness ==
    \E t, u \in Threads :
        /\ pc[t] = "get" /\ tx[t].result = "pending"
        /\ writer = u /\ u # t

\* C26: the map is written only by the thread that holds the write lock, at
\* line 118, and only at its own broker's key; the thread inside
\* updateTopicForBroker is the holder of the write lock, the threads reading
\* the map in getExistingTopic are the holders of the read lock, and while
\* the write lock is held there is no reader.
C26_WritesUnderLock ==
    /\ [](/\ writer # 0 => readers = {}
          /\ \A t \in Threads :
                /\ InUpdate(t) <=> writer = t
                /\ pc[t] = "getExisting" <=> t \in readers)
    /\ [][topics' # topics =>
            /\ writer # 0
            /\ readers = {}
            /\ pc[writer] = "install"
            /\ \A b \in Brokers \ {broker[writer]} : topics'[b] = topics[b]]_vars

\* A thread is about to write the map while the other waits for the read lock.
C26_Witness ==
    \E t, u \in Threads :
        /\ pc[t] = "install" /\ writer = t
        /\ pc[u] = "RLock" /\ broker[u] = broker[t]

\* C27: while no Send is in or waiting to enter updateTopicForBroker, a thread
\* that calls RLock gets the read lock, whoever else holds it.
C27_ReadersShare ==
    \A t \in Threads :
        (pc[t] = "RLock" /\ \A u \in Threads : pc[u] # "Lock" /\ ~InUpdate(u)) =>
            ENABLED RLock(t)

\* Every thread holds the read lock, for the same broker.
C27_Witness ==
    /\ readers = Threads
    /\ \A t \in Threads : broker[t] = "b1" /\ pc[t] = "getExisting"

\* C28: a Send that fails with ErrNotFound or ErrNotReady has written no log
\* entry.
C28_OnlyIncompleteLogged ==
    \A t \in Threads : err[t] \in {"ErrNotFound", "ErrNotReady"} => logged[t] = "none"

\* C29: the handle a lookup returns is bound to a topic ID that the config
\* held for the broker, READY, during the lookup: the lookup's topicID is set
\* only by its reads of the config, to the topic of the READY entry read; the
\* handle returned is bound to the topicID of the last read; and Publish is
\* called on the handle returned, whose ID never changes.
C29_BoundToObservedID ==
    [][\A t \in Threads :
         /\ (topicID'[t] # topicID[t] /\ topicID'[t] # "") =>
               /\ pc[t] \in {"getTopicID", "locked"}
               /\ brokerConfig[broker[t]].found
               /\ brokerConfig[broker[t]].state = "READY"
               /\ brokerConfig[broker[t]].queue
               /\ brokerConfig[broker[t]].topic = topicID'[t]
         /\ (~Returned(t) /\ Returned(t)') =>
               /\ topicID[t] \in TopicIDs
               /\ topic'[t] # NoTopic
               /\ handles'[topic'[t]].id = topicID[t]
               /\ handles'[topic'[t]].broker = broker[t]
         /\ (pc[t] = "encode" /\ pc'[t] = "get") => topic'[t] = topic[t]
         /\ \A h \in HandleIDs : handles'[h].id = handles[h].id]_vars

\* A lookup returned a t2 handle; the config held t2 only for a time after the
\* Send began and holds it no more.
C29_Witness ==
    \E t \in Threads :
        /\ Returned(t) /\ handles[topic[t]].id = "t2"
        /\ snap[t].ver = 0 /\ nchanges[broker[t]] = 2
        /\ getTopicIDForBroker(broker[t]).topicID # "t2"

\* C30: a step of a Send leaves the map entry of every other broker as it is,
\* and creates, stops or replaces no handle of another broker.
C30_OtherBrokersUntouched ==
    [][\A t \in Threads :
         pc'[t] # pc[t] =>
            \A b \in Brokers \ {broker'[t]} :
                /\ topics'[b] = topics[b]
                /\ \A h \in 1..Len(handles') :
                     handles'[h].broker = b =>
                        (h <= Len(handles) /\ handles'[h] = handles[h])]_vars

\* The handle of b1 was rotated after b2's handle was cached; b2's handle is
\* still cached and open.
C30_Witness ==
    /\ Opens("b1") = 2 /\ Opens("b2") = 1
    /\ topics["b1"] # NoTopic /\ topics["b2"] # NoTopic
    /\ topics["b2"] < topics["b1"]
    /\ handles[topics["b1"]].id = "t2"
    /\ handles[topics["b2"]].stopped = 0

\* C32: the classification of a broker's config entry is NotFound when there
\* is no entry; else NotReady when the entry is not READY, whatever its
\* DecoupleQueue; else Incomplete when the queue or its topic is missing; else
\* the topic. The result carries an error or a topic ID, never both and never
\* neither, and a Send that ends in the first read returns that error.
C32_Precedence ==
    /\ \A b \in Brokers :
        LET brokerCfg == brokerConfig[b]
            r == getTopicIDForBroker(b)
        IN  /\ r.err = "ErrNotFound" <=> ~brokerCfg.found
            /\ r.err = "ErrNotReady" <=> (brokerCfg.found /\ brokerCfg.state # "READY")
            /\ r.err = "ErrIncomplete" <=>
                  (/\ brokerCfg.found /\ brokerCfg.state = "READY"
                   /\ (~brokerCfg.queue \/ brokerCfg.topic = ""))
            /\ r.err \in LookupErrs \cup {"nil"}
            /\ r.err = "nil" <=> r.topicID # ""
            /\ r.topicID # "" => r.topicID = brokerCfg.topic
    /\ \A t \in Threads :
        LET brokerCfg == brokerConfig[broker[t]] IN
        (/\ pc[t] = "done" /\ Stable(t)
         /\ brokerCfg.found /\ brokerCfg.state # "READY") =>
            (err[t] = "ErrNotReady" /\ logged[t] = "debug")

\* A Send returned ErrNotReady for a broker that is not READY and has no
\* DecoupleQueue.
C32_Witness ==
    \E t \in Threads :
        /\ pc[t] = "done" /\ Stable(t) /\ err[t] = "ErrNotReady"
        /\ brokerConfig[broker[t]] = BrokerEntry("UNKNOWN", FALSE, "")

\* C33: a Send whose event could not be encoded returns the encoder's error
\* and has not called Publish; it holds the handle its lookup returned, and
\* while the broker's config entry stays put that handle is the cached one and
\* is open.
C33_EncodeFailure ==
    \A t \in Threads :
        (pc[t] = "done" /\ err[t] = "EncodeError") =>
            /\ tx[t] = NoTx
            /\ topic[t] # NoTopic
            /\ Stable(t) =>
                /\ topics[broker[t]] = topic[t]
                /\ handles[topic[t]].stopped = 0

\* The encoding failed in the Send whose lookup created the broker's handle.
C33_Witness ==
    \E t \in Threads :
        /\ pc[t] = "done" /\ err[t] = "EncodeError" /\ Stable(t)
        /\ snap[t].entry = NoTopic
        /\ topics[broker[t]] = topic[t]
        /\ handles[topic[t]].stopped = 0

\* t's Send is inside getTopicForBroker.
InLookup(t) ==
    pc[t] \in {"getTopicID", "RLock", "getExisting", "compare", "Lock"} \/ InUpdate(t)

\* C31: under fair scheduling every lookup returns, to the encoding of the
\* event or with its error to the caller of Send, and holds no lock then.
C31_LookupsReturn ==
    \A t \in Threads :
        InLookup(t) ~> (~InLookup(t) /\ writer # t /\ t \notin readers)

\* A lookup waits for the write lock while another is about to release it on
\* the error path.
C31_Witness ==
    \E t, u \in Threads :
        /\ pc[t] = "Lock"
        /\ writer = u /\ pc[u] = "Unlock" /\ err[u] \in LookupErrs

\* Validate has returned.
Validated == errs # NotValidated
\* Validate returned an error for the field.
Rejected(field) == \E e \in errs : e.field = field

\* C34: a set RetentionDuration that parses is rejected exactly when it is
\* longer than 7 days or shorter than 10 minutes.
C34_RetentionRange ==
    LET p == current.retentionDuration
        rd == ParseDuration(p.s)
    IN  (Validated /\ p.set /\ rd.ok) =>
            (Rejected("retentionDuration") <=>
                (Less(Seconds(604800), rd.d) \/ Less(rd.d, Seconds(600))))

\* C35: a set AckDeadline is accepted exactly when it parses to a duration
\* from 0 seconds to 10 minutes, both included; one that does not parse gets
\* ErrInvalidValue on ackDeadline and one outside the range
\* ErrOutOfBoundsValue on ackDeadline, and nothing else.
C35_AckDeadlineRange ==
    LET p == current.ackDeadline
        ad == ParseDuration(p.s)
        inRange == ad.ok /\ ~Less(ad.d, Seconds(0)) /\ ~Less(Seconds(600), ad.d)
        ackErrs == { e \in errs : e.field = "ackDeadline" }
    IN  (Validated /\ p.set) =>
            /\ ~Rejected("ackDeadline") <=> inRange
            /\ ~ad.ok => ackErrs = {[err |-> "ErrInvalidValue", field |-> "ackDeadline"]}
            /\ (ad.ok /\ ~inRange) =>
                  ackErrs = {[err |-> "ErrOutOfBoundsValue", field |-> "ackDeadline"]}

\* An AckDeadline of exactly ten minutes, written in seconds, was accepted.
C35_Witness ==
    /\ Validated
    /\ current.ackDeadline = String(<<"6", "0", "0", "s">>)
    /\ errs = {}

====
